---- MODULE Spec2Model ----
(***************************************************************************)
(* Delivery plan generation of the warehouse-robot backend:                *)
(*   service/robot.go     GenerateDeliveryPlan, the knapsack selection     *)
(*   repository/order.go  GetShippingOrders, UpdateStatuses                *)
(***************************************************************************)
EXTENDS Integers, Sequences, FiniteSets, TLC

(* ---------------------------------------------------------------- bounds *)

\* Longest order sequence handed to the selection functions in SpecSel.
MaxLen == 3
\* Largest weight of an order in SpecSel.
MaxWeight == 2
\* Largest value of an order in SpecSel.
MaxValue == 3
\* Largest small capacity in SpecSel.
MaxCap == 4
\* Longest order pool of Spec.
MaxPool == 2
\* Largest small capacity of a robot in Spec and SpecOne.
MaxRobotCap == 2

(* ------------------------------------------------------ program constants *)

\* robot.go:82  n > 500
DPMaxOrders == 500
\* robot.go:82  robotCapacity > 5000
DPMaxCapacity == 5000
\* robot.go:106  i%50 == 0
CheckInterval == 50

(* ------------------------------------------------------------ data model *)

\* model.Order as the selection sees it: the columns GetShippingOrders reads.
Order(id, w, v) == [OrderID |-> id, Weight |-> w, Value |-> v]

\* model.DeliveryPlan
DeliveryPlan(robotID, tw, tv, os) ==
    [RobotID |-> robotID, TotalWeight |-> tw, TotalValue |-> tv, Orders |-> os]

\* model.DeliveryPlan{} : the zero value returned beside an error.
ZeroPlan == DeliveryPlan("", 0, 0, <<>>)

Range(s) == {s[k] : k \in 1..Len(s)}

RECURSIVE SumWeight(_)
SumWeight(s) == IF s = <<>> THEN 0 ELSE s[1].Weight + SumWeight(Tail(s))

RECURSIVE SumValue(_)
SumValue(s) == IF s = <<>> THEN 0 ELSE s[1].Value + SumValue(Tail(s))

(* ------------------------------------------------ selectOrdersDP (exact) *)

\* robot.go:95-99  dp := make([]int, cap+1); keep[i] := make([]bool, cap+1).
\* keep[i] is held as the set of the w with keep[i][w] = true.
DPAlloc(n, cap) ==
    [dp |-> [w \in 0..cap |-> 0], keep |-> [i \in 0..n |-> {}]]

\* robot.go:106-112  the cancellation checkpoint of iteration i.
MutDPCheckpoint(i, ctxDone) == ((i - 1) % CheckInterval = 0) /\ ctxDone
DPCheckpoint(i, ctxDone) == (i % CheckInterval = 0) /\ ctxDone

\* robot.go:115  the inner loop runs while w >= order.Weight.
MutInnerLoopLow(order) == order.Weight + 1
InnerLoopLow(order) == order.Weight

\* robot.go:116  includeValue := dp[w-order.Weight] + order.Value
MutIncludeValue(dp, w, order) == order.Value
IncludeValue(dp, w, order) == dp[w - order.Weight] + order.Value

\* robot.go:115-121  the inner loop, w descending from the capacity.
RECURSIVE InnerLoop(_, _, _, _)
InnerLoop(dp, row, w, order) ==
    IF w < InnerLoopLow(order) THEN [dp |-> dp, row |-> row]
    ELSE IF IncludeValue(dp, w, order) > dp[w]
         THEN InnerLoop([dp EXCEPT ![w] = IncludeValue(dp, w, order)],
                        row \cup {w}, w - 1, order)
         ELSE InnerLoop(dp, row, w - 1, order)

\* robot.go:103,115-121  iteration i of the outer loop, after its checkpoint.
DPIterate(st, i, orders, cap) ==
    LET r == InnerLoop(st.dp, {}, cap, orders[i])
    IN  [dp |-> r.dp, keep |-> [st.keep EXCEPT ![i] = r.row]]

\* robot.go:102-122  the outer loop from iteration i on.
RECURSIVE DPFill(_, _, _, _, _)
DPFill(st, i, orders, cap, ctxDone) ==
    IF i > Len(orders) THEN [err |-> "", st |-> st]
    ELSE IF DPCheckpoint(i, ctxDone) THEN [err |-> "canceled", st |-> st]
    ELSE DPFill(DPIterate(st, i, orders, cap), i + 1, orders, cap, ctxDone)

\* robot.go:133  w -= order.Weight
MutBacktrackW(w, order) == w
BacktrackW(w, order) == w - order.Weight

\* robot.go:129-136  the traceback from (i, w).
RECURSIVE Backtrack(_, _, _, _, _, _)
Backtrack(orders, keep, i, w, sel, tw) ==
    IF i > 0 /\ w > 0
    THEN IF w \in keep[i]
         THEN Backtrack(orders, keep, i - 1, BacktrackW(w, orders[i]),
                        Append(sel, orders[i]), tw + orders[i].Weight)
         ELSE Backtrack(orders, keep, i - 1, w, sel, tw)
    ELSE [Orders |-> sel, TotalWeight |-> tw]

\* robot.go:124-143  the plan built from a filled table.
DPPlan(st, orders, robotID, cap) ==
    LET b == Backtrack(orders, st.keep, Len(orders), cap, <<>>, 0)
    IN  DeliveryPlan(robotID, b.TotalWeight, st.dp[cap], b.Orders)

\* robot.go:91-144
selectOrdersDP(ctxDone, orders, robotID, cap) ==
    LET f == DPFill(DPAlloc(Len(orders), cap), 1, orders, cap, ctxDone)
    IN  IF f.err # "" THEN [plan |-> ZeroPlan, err |-> f.err]
        ELSE [plan |-> DPPlan(f.st, orders, robotID, cap), err |-> ""]

(* ------------------------------------------- selectOrdersGreedy (approx.) *)

\* robot.go:163-165  the ratios are float64 quotients of two ints; on the
\* weights and values of the model the quotients compare as the fractions do.
RatioLess(x, y) == x.Value * y.Weight < y.Value * x.Weight

\* robot.go:162-166  less(i, j) of the sort: i goes first when ratio j < ratio i.
SortLess(x, y) == RatioLess(y, x)

\* The orders sorted by less, elements that less does not separate kept in
\* input order.
StableSorted(s) ==
    LET n == Len(s)
        rank == SubSeq([k \in 1..n |->
                    1 + Cardinality({j \in 1..n :
                        SortLess(s[j], s[k]) \/ (~SortLess(s[k], s[j]) /\ j < k)})],
                    1, n)
    IN  SubSeq([p \in 1..n |-> s[CHOOSE k \in 1..n : rank[k] = p]], 1, n)

Remove(s, k) == SubSeq(s, 1, k - 1) \o SubSeq(s, k + 1, Len(s))

\* Every order of the elements of s.
RECURSIVE Orderings(_)
Orderings(s) ==
    IF s = <<>> THEN {<<>>}
    ELSE UNION {{<<s[k]>> \o t : t \in Orderings(Remove(s, k))} : k \in 1..Len(s)}

\* The places of a sorted sequence where less separates two neighbours.
Cuts(s) == {c \in 1..(Len(s) - 1) : SortLess(s[c], s[c + 1])}

Dist(a, b) == IF a < b THEN b - a ELSE a - b

\* Every arrangement of a sorted sequence that is still sorted: each run of
\* elements that less does not separate in any order. The sequence is split
\* at the cut nearest its middle.
RECURSIVE Arrangements(_)
Arrangements(s) ==
    IF Cuts(s) = {} THEN Orderings(s)
    ELSE LET m == Len(s) \div 2
             c == CHOOSE x \in Cuts(s) : \A y \in Cuts(s) : Dist(x, m) <= Dist(y, m)
         IN  {a \o b : a \in Arrangements(SubSeq(s, 1, c)),
                       b \in Arrangements(SubSeq(s, c + 1, Len(s)))}

\* robot.go:162-166  sort.Slice: sorted by less, and not guaranteed to be
\* stable, so every order of the elements that less does not separate is an
\* outcome.
SortSlice(s) == Arrangements(StableSorted(s))

\* robot.go:173  if totalWeight+order.Weight <= robotCapacity
MutGreedyFits(tw, order, cap) == tw <= cap
GreedyFits(tw, order, cap) == tw + order.Weight <= cap

\* robot.go:173-177  one order of the walk; acc holds selectedOrders,
\* totalWeight and totalValue.
GreedyTake(acc, order, cap) ==
    IF GreedyFits(acc.TotalWeight, order, cap)
    THEN [Orders |-> Append(acc.Orders, order),
          TotalWeight |-> acc.TotalWeight + order.Weight,
          TotalValue |-> acc.TotalValue + order.Value]
    ELSE acc

\* robot.go:168-170  the walk's variables before its first order.
GreedyStart == [Orders |-> <<>>, TotalWeight |-> 0, TotalValue |-> 0]

\* robot.go:172-178  the walk of the sorted copy from its k-th order on.
RECURSIVE GreedyWalk(_, _, _, _)
GreedyWalk(sorted, k, cap, acc) ==
    IF k > Len(sorted) THEN acc
    ELSE GreedyWalk(sorted, k + 1, cap, GreedyTake(acc, sorted[k], cap))

\* robot.go:180-185
GreedyReturn(acc, robotID) ==
    DeliveryPlan(robotID, acc.TotalWeight, acc.TotalValue, acc.Orders)

\* robot.go:168-185
GreedyPlanOf(sorted, robotID, cap) ==
    GreedyReturn(GreedyWalk(sorted, 1, cap, GreedyStart), robotID)

\* robot.go:147-186  the plans the function can return.
selectOrdersGreedy(orders, robotID, cap) ==
    IF Len(orders) = 0 THEN {DeliveryPlan(robotID, 0, 0, <<>>)}
    ELSE {GreedyPlanOf(sorted, robotID, cap) : sorted \in SortSlice(orders)}

\* robot.go:82  the strategy switch.
UseGreedy(n, cap) == n > DPMaxOrders \/ cap > DPMaxCapacity

\* robot.go:70-88  the results (plan, err) the function can return.
selectOrdersForDeliveryOptimized(ctxDone, orders, robotID, cap) ==
    IF Len(orders) = 0
    THEN {[plan |-> DeliveryPlan(robotID, 0, 0, <<>>), err |-> ""]}
    ELSE IF UseGreedy(Len(orders), cap)
    THEN {[plan |-> p, err |-> ""] : p \in selectOrdersGreedy(orders, robotID, cap)}
    ELSE {selectOrdersDP(ctxDone, orders, robotID, cap)}

(* ------------------------------------------------------------ the state *)

VARIABLES
    pool,       \* the rows of orders joined with products, by order_id
    status,     \* orders.shipped_status as committed, by order_id
    status0,    \* shipped_status when the system started
    req,        \* per robot: its GenerateDeliveryPlan request
    inOrders, inCapacity, selPc, dpPlan, greedyPlan, optPlan

planVars == <<pool, status, status0, req>>

selVars == <<inOrders, inCapacity, selPc, dpPlan, greedyPlan, optPlan>>

vars == <<planVars, selVars>>

(* -------------------------------------------------- the order repository *)

\* order.go:51-64  the rows with shipped_status = 'shipping'.
GetShippingOrders(rows, st) ==
    SelectSeq(rows, LAMBDA o : st[o.OrderID] = "shipping")

\* order.go:37-48  the rows the UPDATE writes: every order_id IN (orderIDs),
\* whatever its shipped_status is.
MutUpdateStatuses(orderIDs, newStatus) ==
    {<<orderIDs[k], newStatus>> : k \in 2..Len(orderIDs)}
UpdateStatuses(orderIDs, newStatus) ==
    IF Len(orderIDs) = 0 THEN {}
    ELSE {<<orderIDs[k], newStatus>> : k \in 1..Len(orderIDs)}

\* How a call on the transaction's connection ends: with the context's error
\* once the deadline has passed, else well or with a storage error.
StorageResults(ctxDone) == IF ctxDone THEN {"canceled"} ELSE {"", "storage"}

\* The committed table with a transaction's writes applied.
Apply(st, writes) ==
    [id \in DOMAIN st |->
        IF \E w \in writes : w[1] = id
        THEN (CHOOSE w \in writes : w[1] = id)[2]
        ELSE st[id]]

(* ------------------------------------------------- GenerateDeliveryPlan *)

Robots == {"r1", "r2"}

\* The capacities a request is made with.
RobotCapacities == (0..MaxRobotCap) \cup {DPMaxCapacity + 1}

\* A request that has not been made.
IdleRequest ==
    [pc |-> "idle", capacity |-> 0, ctxDone |-> FALSE, dpAt |-> 0,
     orders |-> <<>>, i |-> 0, st |-> DPAlloc(0, 0),
     sorted |-> <<>>, acc |-> GreedyStart,
     plan |-> ZeroPlan, writes |-> {}, err |-> "", ret |-> <<>>,
     fetchCalls |-> 0, updateCalls |-> 0]

Active(r) == req[r].pc \notin {"idle", "done", "failed"}

\* robot.go:40-43  orderIDs[i] = order.OrderID
OrderIDs(plan) == [k \in 1..Len(plan.Orders) |-> plan.Orders[k].OrderID]

\* robot.go:39  if len(plan.Orders) > 0
MutPlanNonEmpty(plan) == TRUE
PlanNonEmpty(plan) == Len(plan.Orders) > 0

\* robot.go:57-60  nil beside an error, else &plan; <<>> stands for nil.
MutPlanResult(err, plan) == <<plan>>
PlanResult(err, plan) == IF err # "" THEN <<>> ELSE <<plan>>

\* robot.go:26-28,36-38,45-47,57-59  an error ends the request: the
\* transaction is rolled back and the caller gets nil and the error.
Fail(r, e) ==
    [req[r] EXCEPT !.pc = "failed", !.err = e, !.writes = {},
                   !.ret = PlanResult(e, req[r].plan)]

\* robot.go:20-24  the request starts: WithTimeout, then ExecTx begins.
Begin(r, capacity) ==
    /\ req[r].pc = "idle"
    /\ req' = [req EXCEPT ![r].pc = "fetch", ![r].capacity = capacity]
    /\ UNCHANGED <<pool, status, status0, selVars>>

\* The deadline of WithTimeout passes, or the caller cancels. dpAt records
\* the iteration the DP's outer loop had reached, 0 outside the DP.
Timeout(r) ==
    /\ Active(r)
    /\ ~req[r].ctxDone
    /\ req' = [req EXCEPT ![r].ctxDone = TRUE,
                          ![r].dpAt = IF req[r].pc = "dp" THEN req[r].i ELSE 0]
    /\ UNCHANGED <<pool, status, status0, selVars>>

\* robot.go:25-28  orders, err := txStore.OrderRepo.GetShippingOrders(ctx)
Fetch(r) ==
    /\ req[r].pc = "fetch"
    /\ \E e \in StorageResults(req[r].ctxDone) :
          req' = [req EXCEPT ![r] =
                    IF e # "" THEN [Fail(r, e) EXCEPT !.fetchCalls = @ + 1]
                    ELSE [@ EXCEPT !.pc = "select",
                                   !.orders = GetShippingOrders(pool, status),
                                   !.fetchCalls = @ + 1]]
    /\ UNCHANGED <<pool, status, status0, selVars>>

\* robot.go:35, 70-88  selectOrdersForDeliveryOptimized is entered.
Select(r) ==
    /\ req[r].pc = "select"
    /\ \/ /\ Len(req[r].orders) = 0
          /\ req' = [req EXCEPT ![r].pc = "update",
                                ![r].plan = DeliveryPlan(r, 0, 0, <<>>)]
       \/ /\ Len(req[r].orders) # 0
          /\ UseGreedy(Len(req[r].orders), req[r].capacity)
          /\ \E sorted \in SortSlice(req[r].orders) :
                req' = [req EXCEPT ![r].pc = "greedy", ![r].sorted = sorted,
                                   ![r].i = 1, ![r].acc = GreedyStart]
       \/ /\ Len(req[r].orders) # 0
          /\ ~UseGreedy(Len(req[r].orders), req[r].capacity)
          /\ req' = [req EXCEPT ![r].pc = "dp", ![r].i = 1,
                        ![r].st = DPAlloc(Len(req[r].orders), req[r].capacity)]
    /\ UNCHANGED <<pool, status, status0, selVars>>

\* robot.go:172-178  one order of the greedy walk.
GreedyStep(r) ==
    /\ req[r].pc = "greedy"
    /\ req[r].i <= Len(req[r].sorted)
    /\ req' = [req EXCEPT ![r].i = @ + 1,
                  ![r].acc = GreedyTake(@, req[r].sorted[req[r].i], req[r].capacity)]
    /\ UNCHANGED <<pool, status, status0, selVars>>

\* robot.go:180-185  selectOrdersGreedy returns.
GreedyDone(r) ==
    /\ req[r].pc = "greedy"
    /\ req[r].i > Len(req[r].sorted)
    /\ req' = [req EXCEPT ![r].pc = "update",
                          ![r].plan = GreedyReturn(req[r].acc, r)]
    /\ UNCHANGED <<pool, status, status0, selVars>>

\* robot.go:102-122  one iteration of the DP's outer loop.
DPStep(r) ==
    /\ req[r].pc = "dp"
    /\ req[r].i <= Len(req[r].orders)
    /\ req' = [req EXCEPT ![r] =
                IF DPCheckpoint(req[r].i, req[r].ctxDone)
                THEN Fail(r, "canceled")
                ELSE [@ EXCEPT !.i = @ + 1,
                        !.st = DPIterate(@, req[r].i, req[r].orders, req[r].capacity)]]
    /\ UNCHANGED <<pool, status, status0, selVars>>

\* robot.go:124-143  the traceback; selectOrdersDP returns.
DPDone(r) ==
    /\ req[r].pc = "dp"
    /\ req[r].i > Len(req[r].orders)
    /\ req' = [req EXCEPT ![r].pc = "update",
                  ![r].plan = DPPlan(req[r].st, req[r].orders, r, req[r].capacity)]
    /\ UNCHANGED <<pool, status, status0, selVars>>

\* The rows other open transactions have written and not committed.
LockedByOthers(r) ==
    {w[1] : w \in UNION {req[o].writes : o \in Robots \ {r}}}

\* robot.go:39-53  the status update of a non-empty plan, inside the
\* transaction; an empty plan goes on to the commit without a call.
Update(r) ==
    /\ req[r].pc = "update"
    /\ \/ /\ ~PlanNonEmpty(req[r].plan)
          /\ req' = [req EXCEPT ![r].pc = "commit"]
       \/ /\ PlanNonEmpty(req[r].plan)
          /\ \E e \in StorageResults(req[r].ctxDone) :
                /\ e = "" => Range(OrderIDs(req[r].plan)) \cap LockedByOthers(r) = {}
                /\ req' = [req EXCEPT ![r] =
                            IF e # "" THEN [Fail(r, e) EXCEPT !.updateCalls = @ + 1]
                            ELSE [@ EXCEPT !.pc = "commit",
                                    !.writes = @ \cup UpdateStatuses(
                                                  OrderIDs(req[r].plan), "delivering"),
                                    !.updateCalls = @ + 1]]
    /\ UNCHANGED <<pool, status, status0, selVars>>

\* robot.go:54-60  the callback returns nil: ExecTx commits, and
\* GenerateDeliveryPlan returns the plan, or the commit's error.
Commit(r) ==
    /\ req[r].pc = "commit"
    /\ \E e \in StorageResults(req[r].ctxDone) :
          IF e # ""
          THEN /\ req' = [req EXCEPT ![r] = Fail(r, e)]
               /\ UNCHANGED status
          ELSE /\ status' = Apply(status, req[r].writes)
               /\ req' = [req EXCEPT ![r].pc = "done", ![r].writes = {},
                                     ![r].ret = PlanResult("", req[r].plan)]
    /\ UNCHANGED <<pool, status0, selVars>>

Step(r) ==
    \/ \E c \in RobotCapacities : Begin(r, c)
    \/ Timeout(r)
    \/ Fetch(r)
    \/ Select(r)
    \/ GreedyStep(r)
    \/ GreedyDone(r)
    \/ DPStep(r)
    \/ DPDone(r)
    \/ Update(r)
    \/ Commit(r)

\* The order rows of a pool of n orders.
PoolOf(n) == [k \in 1..n |-> Order(k, 1 + (k % 2), k)]

Statuses == {"shipping", "delivering"}

InitPlan(sizes) ==
    /\ pool \in {PoolOf(n) : n \in sizes}
    /\ req = [r \in Robots |-> IdleRequest]
    /\ inOrders = <<>> /\ inCapacity = 0 /\ selPc = "off"
    /\ dpPlan = ZeroPlan /\ greedyPlan = ZeroPlan /\ optPlan = ZeroPlan

\* Two robots plan at once over a small pool in any state.
Init ==
    /\ InitPlan(0..MaxPool)
    /\ status \in [1..Len(pool) -> Statuses]
    /\ status0 = status

Next == \E r \in Robots : Step(r)

Spec == Init /\ [][Next]_vars

\* One robot plans over a pool as long as the DP's checkpoint interval, or
\* longer than the DP takes; the first order may be out for delivery.
InitOne ==
    /\ InitPlan({0, 1, CheckInterval - 1, CheckInterval, CheckInterval + 1,
                 DPMaxOrders + 1})
    /\ status \in {[k \in 1..Len(pool) |-> IF k = 1 THEN s ELSE "shipping"] :
                      s \in Statuses}
    /\ status0 = status

NextOne == Step("r1")

SpecOne == InitOne /\ [][NextOne]_vars

(* ------------------------------------------ claims on GenerateDeliveryPlan *)

\* The order identifiers of the plan a finished request returned.
Claimed(r) ==
    IF req[r].ret = <<>> THEN {} ELSE Range(OrderIDs(req[r].ret[1]))

\* C1: two requests that ran at once and both returned a plan returned plans
\* that share no order identifier.
C1_DisjointPlans ==
    \A a, b \in Robots :
        (a # b /\ req[a].pc = "done" /\ req[b].pc = "done")
            => Claimed(a) \cap Claimed(b) = {}

\* The committed table after the orders of a plan went out for delivery.
Delivered(st, plan) ==
    [id \in DOMAIN st |->
        IF id \in Range(OrderIDs(plan)) THEN "delivering" ELSE st[id]]

\* C4: a request that fails at the fetch, the selection or the commit returns
\* the failure and no plan, is not tried again, and has changed no order's
\* status: only the commit changes statuses, all of the plan's at once.
C4_FailureChangesNothing ==
    [][\A r \in Robots :
        /\ req'[r].pc = "failed" =>
              /\ req'[r].ret = <<>> /\ req'[r].err # "" /\ req'[r].writes = {}
              /\ status' = status0'
        /\ req[r].pc = "failed" => req'[r] = req[r]
        /\ req'[r].fetchCalls <= 1 /\ req'[r].updateCalls <= 1
        /\ (req'[r] # req[r] /\ req'[r].pc # "done") => status' = status
        /\ (req'[r] # req[r] /\ req'[r].pc = "done") =>
              status' = Delivered(status, req[r].plan)
      ]_vars

\* C4 witness: a request failed after its status update had been issued, and
\* every order still has the status it started with.
C4_Witness ==
    \E r \in Robots :
        /\ req[r].pc = "failed" /\ req[r].updateCalls = 1
        /\ req[r].plan.Orders # <<>> /\ req[r].ret = <<>>
        /\ status = status0

\* A checkpoint of the DP's outer loop at or after iteration i.
CheckpointAhead(r, i) ==
    \E m \in i..Len(req[r].orders) : m % CheckInterval = 0

\* The deadline passed while the DP still had orders to process.
CanceledMidDP(r) == req[r].dpAt \in 1..Len(req[r].orders)

\* The request ended with the cancellation failure and changed nothing.
CanceledCleanly(r) ==
    /\ req[r].err = "canceled" /\ req[r].ret = <<>> /\ req[r].writes = {}
    /\ req[r].updateCalls = 0
    /\ status = status0

\* C5 as claimed: whatever the number of orders, a deadline that passes while
\* the DP processes its orders makes the DP abort: the DP never returns a plan.
C5_DPAlwaysObserves ==
    \A r \in Robots :
        CanceledMidDP(r) =>
            /\ req[r].pc \in {"dp", "failed"}
            /\ req[r].pc = "failed" => CanceledCleanly(r)

\* C5 amended: when the deadline passes while the DP still has an iteration
\* i with i % 50 = 0 ahead, the DP aborts at that iteration with the
\* cancellation failure, the request returns it and no status has changed;
\* with no such iteration left the DP runs to its end.
C5_CheckpointObserves ==
    \A r \in Robots :
        /\ (CanceledMidDP(r) /\ CheckpointAhead(r, req[r].dpAt)) =>
              /\ req[r].pc \in {"dp", "failed"}
              /\ req[r].pc = "dp" => CheckpointAhead(r, req[r].i)
              /\ req[r].pc = "failed" =>
                    /\ CanceledCleanly(r)
                    /\ req[r].i % CheckInterval = 0
        /\ (CanceledMidDP(r) /\ ~CheckpointAhead(r, req[r].dpAt)
              /\ req[r].pc = "failed") => req[r].i > Len(req[r].orders)

\* C5 witness: the deadline passed before the checkpoint's iteration, and the
\* DP aborted at the checkpoint.
C5_Witness ==
    /\ req["r1"].pc = "failed" /\ req["r1"].err = "canceled"
    /\ CanceledMidDP("r1") /\ req["r1"].dpAt < req["r1"].i
    /\ req["r1"].i % CheckInterval = 0
    /\ req["r1"].capacity > 0

\* C6: a request whose fetch returned no orders, or whose capacity is 0,
\* returns an empty plan of weight and value 0 without calling
\* UpdateStatuses, and no status has changed.
C6_EmptyPlanNoCommit ==
    \A r \in Robots :
        (req[r].pc = "done" /\ (Len(req[r].orders) = 0 \/ req[r].capacity = 0)) =>
            /\ req[r].ret = <<DeliveryPlan(r, 0, 0, <<>>)>>
            /\ req[r].updateCalls = 0
            /\ status = status0

\* C6 witness: capacity 0 on the greedy path, with more than 500 orders
\* fetched.
C6_Witness ==
    /\ req["r1"].pc = "done" /\ req["r1"].capacity = 0
    /\ Len(req["r1"].orders) > DPMaxOrders
    /\ req["r1"].i > Len(req["r1"].sorted)

\* C7: the orders of a returned plan were shipping when fetched and are
\* delivering once the request has committed, and the commit leaves every
\* other order's status as it was; no other step of a request changes a
\* status.
C7_CommitFrame ==
    [][\A r \in Robots :
        /\ (req[r].pc = "fetch" /\ req'[r].pc = "select") =>
              \A k \in 1..Len(req'[r].orders) :
                  status[req'[r].orders[k].OrderID] = "shipping"
        /\ req'[r].pc \in {"update", "commit", "done"} =>
              Range(req'[r].plan.Orders) \subseteq Range(req'[r].orders)
        /\ (req[r].pc = "commit" /\ req'[r].pc = "done") =>
              /\ req'[r].ret = <<req[r].plan>>
              /\ \A id \in DOMAIN status :
                    status'[id] = IF id \in Claimed(r)' THEN "delivering"
                                  ELSE status[id]
        /\ (req'[r] # req[r] /\ ~(req[r].pc = "commit" /\ req'[r].pc = "done")) =>
              status' = status
      ]_vars

\* C7 witness: a request has committed a plan, its orders are delivering, an
\* order it left behind is still shipping and one that was out for delivery
\* from the start still is.
C7_Witness ==
    \E r \in Robots :
        /\ req[r].pc = "done" /\ Claimed(r) # {}
        /\ \A id \in Claimed(r) : status0[id] = "shipping" /\ status[id] = "delivering"
        /\ \E id \in DOMAIN status \ Claimed(r) : status[id] = "shipping"

(* --------------------------------------- the selection on bounded inputs *)


\* Order sequences of a given length: identifiers are the positions.
OrderSeqs(n) ==
    {[k \in 1..n |-> Order(k, wv[k][1], wv[k][2])] :
        wv \in [1..n -> (1..MaxWeight) \X (1..MaxValue)]}

SelInputs == UNION {OrderSeqs(n) : n \in 0..MaxLen}

SelCapacities == (0..MaxCap) \cup {DPMaxCapacity + 1}

InitSel ==
    /\ pool = <<>> /\ status = <<>> /\ status0 = <<>>
    /\ req = [r \in Robots |-> IdleRequest]
    /\ inOrders \in SelInputs
    /\ inCapacity \in SelCapacities
    /\ selPc = "input"
    /\ dpPlan = ZeroPlan
    /\ greedyPlan = ZeroPlan
    /\ optPlan = ZeroPlan

\* selectOrdersDP(context.Background(), orders, "robot", capacity)
CallDP ==
    /\ selPc = "input"
    /\ inCapacity <= MaxCap
    /\ dpPlan' = selectOrdersDP(FALSE, inOrders, "robot", inCapacity).plan
    /\ selPc' = "dp"
    /\ UNCHANGED <<inOrders, inCapacity, greedyPlan, optPlan, planVars>>

\* selectOrdersGreedy(orders, "robot", capacity)
CallGreedy ==
    /\ selPc = IF inCapacity <= MaxCap THEN "dp" ELSE "input"
    /\ greedyPlan' \in selectOrdersGreedy(inOrders, "robot", inCapacity)
    /\ selPc' = "greedy"
    /\ UNCHANGED <<inOrders, inCapacity, dpPlan, optPlan, planVars>>

\* selectOrdersForDeliveryOptimized(context.Background(), orders, "robot", capacity)
CallOptimized ==
    /\ selPc = "greedy"
    /\ \E r \in selectOrdersForDeliveryOptimized(FALSE, inOrders, "robot", inCapacity) :
          optPlan' = r.plan
    /\ selPc' = "done"
    /\ UNCHANGED <<inOrders, inCapacity, dpPlan, greedyPlan, planVars>>

NextSel == CallDP \/ CallGreedy \/ CallOptimized

SpecSel == InitSel /\ [][NextSel]_vars

(* ------------------------------------------------ claims on the selection *)

\* The orders of s at the positions in S, in input order.
RECURSIVE Pick(_, _, _)
Pick(s, S, k) ==
    IF k > Len(s) THEN <<>>
    ELSE (IF k \in S THEN <<s[k]>> ELSE <<>>) \o Pick(s, S, k + 1)

\* The best total value of a subset of the orders that fits the capacity.
KnapsackOptimum(orders, cap) ==
    LET vals == {SumValue(Pick(orders, S, 1)) :
                    S \in {T \in SUBSET (1..Len(orders)) :
                              SumWeight(Pick(orders, T, 1)) <= cap}}
    IN  CHOOSE m \in vals : \A x \in vals : x <= m

DPCalled == selPc \in {"dp", "greedy", "done"} /\ inCapacity <= MaxCap
GreedyCalled == selPc \in {"greedy", "done"}
OptimizedCalled == selPc = "done"

\* C2: the plan of either strategy, and of the switch between them, weighs
\* no more than the capacity.
C2_WeightWithinCapacity ==
    /\ DPCalled => dpPlan.TotalWeight <= inCapacity
    /\ GreedyCalled => greedyPlan.TotalWeight <= inCapacity
    /\ OptimizedCalled => optPlan.TotalWeight <= inCapacity

\* C2 witness: both strategies returned a plan that fills the capacity exactly
\* and leaves an order behind.
C2_Witness ==
    /\ OptimizedCalled /\ DPCalled /\ inCapacity > 0
    /\ dpPlan.TotalWeight = inCapacity /\ Len(dpPlan.Orders) < Len(inOrders)
    /\ greedyPlan.TotalWeight = inCapacity /\ Len(greedyPlan.Orders) < Len(inOrders)
    /\ optPlan.TotalWeight = inCapacity

\* C3: with at most 500 orders and a capacity of at most 5000 the returned
\* TotalValue is the best value of any subset that fits the capacity.
C3_ExactIsOptimal ==
    (OptimizedCalled /\ Len(inOrders) <= DPMaxOrders /\ inCapacity <= DPMaxCapacity)
        => optPlan.TotalValue = KnapsackOptimum(inOrders, inCapacity)

\* C3 witness: the optimum was returned on an input where a greedy walk
\* returned less.
C3_Witness ==
    /\ OptimizedCalled /\ inCapacity <= DPMaxCapacity
    /\ optPlan.TotalValue = KnapsackOptimum(inOrders, inCapacity)
    /\ greedyPlan.TotalValue < optPlan.TotalValue
    /\ Len(optPlan.Orders) >= 2

\* C8: the greedy plan is the walk of the stably sorted orders: of two orders
\* of equal ratio the one that comes first in the input is considered first.
C8_GreedyStable ==
    GreedyCalled => greedyPlan = GreedyPlanOf(StableSorted(inOrders), "robot", inCapacity)

\* C9: the greedy plan is worth no more than the DP's plan on the same input.
C9_GreedyAtMostDP ==
    (GreedyCalled /\ DPCalled) => greedyPlan.TotalValue <= dpPlan.TotalValue

\* C9 witness: both ran on the same input, the greedy plan is non-empty and
\* worth strictly less.
C9_Witness ==
    /\ GreedyCalled /\ DPCalled
    /\ greedyPlan.Orders # <<>>
    /\ greedyPlan.TotalValue < dpPlan.TotalValue

\* A plan lists distinct orders of the input and its totals are their sums.
ConsistentPlan(p, orders) ==
    /\ \A a, b \in 1..Len(p.Orders) : a # b => p.Orders[a].OrderID # p.Orders[b].OrderID
    /\ Range(p.Orders) \subseteq Range(orders)
    /\ p.TotalWeight = SumWeight(p.Orders)
    /\ p.TotalValue = SumValue(p.Orders)

\* C10: the plan of either strategy lists pairwise distinct input orders,
\* TotalWeight is the sum of their weights and TotalValue (for the DP,
\* dp[capacity]) the sum of their values.
C10_PlanConsistent ==
    /\ DPCalled => ConsistentPlan(dpPlan, inOrders)
    /\ GreedyCalled => ConsistentPlan(greedyPlan, inOrders)
    /\ OptimizedCalled => ConsistentPlan(optPlan, inOrders)

\* C10 witness: both strategies listed at least two orders, the DP's traceback
\* skipping one on the way.
C10_Witness ==
    /\ OptimizedCalled /\ DPCalled
    /\ Len(dpPlan.Orders) >= 2 /\ Len(dpPlan.Orders) < Len(inOrders)
    /\ Len(greedyPlan.Orders) >= 2
    /\ ConsistentPlan(dpPlan, inOrders)

====
